---- MODULE Spec2Model ----
(***************************************************************************)
(* QZTrayPrinter (src/index.js): a wrapper around the qz-tray transport.   *)
(* The model follows one instance from construction through concurrent     *)
(* start()/close() calls, the transport's use of the registered suppliers, *)
(* and the four print methods.  Every effect a method has on the outside   *)
(* world (transport calls, launch navigation, console.error, fetch) is an  *)
(* event; a call's trace is the sequence of events it performed, in order. *)
(***************************************************************************)
EXTENDS Integers, Sequences, FiniteSets, TLC

\* ------------------------------------------------------------------ bounds
MaxCalls == 3
MaxSupplierCalls == 2
MaxPrints == 1

\* The concurrent callers of start() and close().
Callers == {"c1", "c2"}

\* ------------------------------------------------------------- JS values
Undefined == "undefined"

\* JS truthiness of a string-or-undefined value.
Truthy(v) == v # Undefined /\ v # ""

\* a || b
OrElse(a, b) == IF Truthy(a) THEN a ELSE b

\* ----------------------------------------------------------------- events
NoOptions == {}
RetryOptions == {<<"retries", 2>>, <<"delay", 1>>}
LaunchUri == "qz:launch"

Event(name, options, arg) == [ev |-> name, options |-> options, arg |-> arg]

SetCertificatePromise(mode) == Event("setCertificatePromise", NoOptions, mode)
SetSignaturePromise == Event("setSignaturePromise", NoOptions, "sign")
Connect(options) == Event("connect", options, "")
Launch == Event("assign", NoOptions, LaunchUri)
Disconnect == Event("disconnect", NoOptions, "")
LogError == Event("logError", NoOptions, "")
Get(url) == Event("GET", NoOptions, url)
Post(url) == Event("POST", NoOptions, url)

CountEv(evs, name) == Cardinality({i \in DOMAIN evs : evs[i].ev = name})
HasEv(evs, name) == \E i \in DOMAIN evs : evs[i].ev = name
LastArg(evs, name, default) ==
    IF HasEv(evs, name)
    THEN evs[CHOOSE i \in DOMAIN evs :
                /\ evs[i].ev = name
                /\ \A j \in DOMAIN evs : evs[j].ev = name => j <= i].arg
    ELSE default

\* What a try/catch block did: the events it performed and whether it ended
\* by throwing to its caller.
Outcome(events, throws) == [events |-> events, throws |-> throws]

\* ------------------------------------------------------------ constructor
required(name, param) == [threw |-> param = Undefined, value |-> param]

Constructor(parameters) ==
    LET cu == required("certificateUrl", parameters.certificateUrl)
        su == required("signUrl", parameters.signUrl)
        pr == required("printer", parameters.printer)
    IN  [threw |-> cu.threw \/ su.threw \/ pr.threw,
         fields |-> [certificateUrl |-> cu.value,
                     rawCertificate |-> OrElse(parameters.rawCertificate, ""),
                     signUrl |-> su.value,
                     printer |-> pr.value]]

Parameters ==
    [certificateUrl : {Undefined, "https://x/cert"},
     rawCertificate : {Undefined, "", "CERT"},
     signUrl : {Undefined, "https://x/sign"},
     printer : {Undefined, "Zebra"}]

NoFields == [certificateUrl |-> "", rawCertificate |-> "", signUrl |-> "", printer |-> ""]

\* ------------------------------------------------------------ error sink
ClassErrorRethrows(error) == Outcome(<<LogError>>, TRUE)

\* __classError: logs, and returns normally.
ClassError(error) == Outcome(<<LogError>>, FALSE)

\* ------------------------------------------------------- __printerConnect
PrinterConnectTryAlwaysLaunch(isActive, options, retry) ==
    IF isActive THEN << >> ELSE <<Launch, Connect(options)>>

\* The try block up to the await: what is called before suspending.
PrinterConnectTry(isActive, options, retry) ==
    IF isActive
    THEN << >>
    ELSE (IF retry THEN <<Launch>> ELSE << >>) \o <<Connect(options)>>

PrinterConnectCatchSilent(isActive, retry) ==
    IF ~retry
    THEN Outcome(PrinterConnectTry(isActive, RetryOptions, TRUE), FALSE)
    ELSE Outcome(<< >>, FALSE)

\* The catch block of a failed transport connect.
PrinterConnectCatch(isActive, retry) ==
    IF ~retry
    THEN Outcome(PrinterConnectTry(isActive, RetryOptions, TRUE), FALSE)
    ELSE ClassError("connect")

\* ------------------------------------------------------------------ start
CertificateSupplierModeAlwaysFetch(rawCertificate) == "fetch"

\* Which certificate supplier start() registers.
CertificateSupplierMode(rawCertificate) ==
    IF Truthy(rawCertificate) THEN "raw" ELSE "fetch"

StartTryUnguarded(isActive, rawCertificate) ==
    <<SetCertificatePromise(CertificateSupplierMode(rawCertificate)), SetSignaturePromise>>
    \o PrinterConnectTry(FALSE, NoOptions, FALSE)

StartTryConnectFirst(isActive, rawCertificate) ==
    (IF ~isActive THEN PrinterConnectTry(isActive, NoOptions, FALSE) ELSE << >>)
    \o <<SetCertificatePromise(CertificateSupplierMode(rawCertificate)), SetSignaturePromise>>

\* The try block of start() up to its await.
StartTry(isActive, rawCertificate) ==
    <<SetCertificatePromise(CertificateSupplierMode(rawCertificate)), SetSignaturePromise>>
    \o (IF ~isActive THEN PrinterConnectTry(isActive, NoOptions, FALSE) ELSE << >>)

\* The catch block of start().
StartCatch(error) == ClassError(error)

\* ------------------------------------------------------------------ close
DisconnectOutcomes == {"ok", "throws", "rejects"}

\* close(): disconnect() is called and its promise is not awaited, so only
\* a synchronous throw reaches the catch block.
CloseBody(outcome) ==
    IF outcome = "throws"
    THEN LET h == ClassError("disconnect")
         IN  Outcome(<<Disconnect>> \o h.events, h.throws)
    ELSE Outcome(<<Disconnect>>, FALSE)

\* -------------------------------------------------------------- suppliers
Responses ==
    { [net |-> "fail", status |-> 0, body |-> ""],
      [net |-> "ok", status |-> 200, body |-> "PEM"],
      [net |-> "ok", status |-> 404, body |-> "Not Found"] }

NoResponse == [net |-> "none", status |-> 0, body |-> ""]
Settled(state, value) == [state |-> state, value |-> value]
NotSettled == Settled("none", "")

\* __fetchCertificate: one GET, then the body text whatever the status.
FetchCertificate(url, resp) ==
    [events |-> <<Get(url)>>,
     result |-> IF resp.net = "fail" THEN Settled("rejected", "") ELSE Settled("resolved", resp.body)]

\* The registered certificate supplier, as the transport calls it.
CertificateSupplier(mode, fields, resp) ==
    IF mode = "raw"
    THEN [events |-> << >>, result |-> Settled("resolved", fields.rawCertificate)]
    ELSE FetchCertificate(fields.certificateUrl, resp)

\* __singCertificate: one POST of {request: toSign}, then the parsed JSON.
SingCertificate(url, toSign, resp) ==
    [events |-> <<Post(url)>>,
     body |-> [request |-> toSign],
     result |-> IF resp.net = "fail" THEN Settled("rejected", "") ELSE Settled("resolved", resp.body)]

ToSign == {"a", "b"}

\* ------------------------------------------------------------ print jobs
\* JS values handed to the transport's print: an object literal with its
\* properties, or an array with its items and any property set on the array
\* object itself.
Descriptor(type, format, data, options) ==
    [kind |-> "object", type |-> type, format |-> format, data |-> data, options |-> options]
Array(items, format) == [kind |-> "array", items |-> items, format |-> format]
RawString(value) == [kind |-> "string", value |-> value]

\* qz.configs.create(printer, options)
ConfigsCreate(printer, options) == [printer |-> printer, options |-> options]

PrintCallOf(config, payload) == [config |-> config, payload |-> payload]

HtmlPrintBody(fields, a) ==
    LET config == ConfigsCreate(fields.printer, OrElse(a.printerOptions, "{}"))
        data == Descriptor("html", OrElse(a.format, "file"), a.data, OrElse(a.pageOptions, "{}"))
    IN  PrintCallOf(config, Array(<<data>>, Undefined))

PdfPrintBody(fields, a) ==
    LET config == ConfigsCreate(fields.printer, OrElse(a.printerOptions, "{}"))
        data == Array(<<Descriptor("pdf", Undefined, a.data, OrElse(a.pageOptions, "{}"))>>,
                      IF a.isBase64 THEN "base64" ELSE Undefined)
    IN  PrintCallOf(config, data)

ImagePrintBody(fields, a) ==
    LET config == ConfigsCreate(fields.printer, OrElse(a.printerOptions, "{}"))
        data == Array(<<Descriptor("image", Undefined, a.data, OrElse(a.pageOptions, "{}"))>>,
                      IF a.isBase64 THEN "base64" ELSE Undefined)
    IN  PrintCallOf(config, Array(<<data>>, Undefined))

RawPrintBody(fields, a) ==
    LET config == ConfigsCreate(fields.printer, OrElse(a.printerOptions, "{}"))
    IN  PrintCallOf(config, a.rawData)

\* The catch block shared by the four print methods.
PrintCatch(error) == ClassError(error)

RawDatas ==
    { Array(<<RawString("^XA^XZ")>>, Undefined),
      Array(<<Descriptor("raw", "plain", "^XA^XZ", "{}")>>, Undefined) }

PrintArgs ==
    [data : {"doc"}, format : {Undefined, "plain"}, isBase64 : BOOLEAN,
     pageOptions : {Undefined, "{scale}"}, printerOptions : {Undefined},
     rawData : RawDatas]

\* ------------------------------------------------------------------ state
VARIABLES
    params,        \* the constructor's argument
    phase,         \* "new" | "ready" | "threw"
    self,          \* the instance's fields
    active,        \* websocket.isActive()
    disconnecting, \* a disconnect the transport has accepted and not finished
    certSupplier,  \* "none" | "raw" | "fetch"
    sigSupplier,   \* "none" | "sign"
    pc,            \* per caller: "idle" | "await1" | "await2" | "done"
    call,          \* per caller: the record of its current/last call
    errorLog,      \* number of logError entries written
    gets, posts,   \* network requests issued
    certCalls, signCalls, \* supplier invocations by the transport
    lastResp, lastCert, lastPost, lastSign,
    ncalls,        \* start()/close() calls made
    nprints, lastPrint

vars == <<params, phase, self, active, disconnecting, certSupplier, sigSupplier,
          pc, call, errorLog, gets, posts, certCalls, signCalls,
          lastResp, lastCert, lastPost, lastSign, ncalls, nprints, lastPrint>>

IsActive == active

NoCall ==
    [op |-> "none", activeAtCall |-> FALSE, activeAtRetry |-> FALSE,
     trace |-> << >>, first |-> "none", second |-> "none",
     failures |-> {}, result |-> "none"]

NoPrint == [method |-> "none", isBase64 |-> FALSE, calls |-> << >>, failed |-> FALSE, result |-> "none"]

Init ==
    /\ params \in Parameters
    /\ phase = "new"
    /\ self = NoFields
    /\ active \in BOOLEAN
    /\ disconnecting = FALSE
    /\ certSupplier = "none"
    /\ sigSupplier = "none"
    /\ pc = [c \in Callers |-> "idle"]
    /\ call = [c \in Callers |-> NoCall]
    /\ errorLog = 0
    /\ gets = 0
    /\ posts = 0
    /\ certCalls = 0
    /\ signCalls = 0
    /\ lastResp = NoResponse
    /\ lastCert = NotSettled
    /\ lastPost = [url |-> "", request |-> ""]
    /\ lastSign = NotSettled
    /\ ncalls = 0
    /\ nprints = 0
    /\ lastPrint = NoPrint

\* The effect of a sequence of events on the world outside the instance.
Apply(evs) ==
    /\ certSupplier' = LastArg(evs, "setCertificatePromise", certSupplier)
    /\ sigSupplier' = LastArg(evs, "setSignaturePromise", sigSupplier)
    /\ errorLog' = errorLog + CountEv(evs, "logError")
    /\ gets' = gets + CountEv(evs, "GET")
    /\ posts' = posts + CountEv(evs, "POST")

Result(throws) == IF throws THEN "rejected" ELSE "resolved"

\* new QZTrayPrinter(parameters)
Construct ==
    /\ phase = "new"
    /\ LET k == Constructor(params)
       IN  /\ phase' = IF k.threw THEN "threw" ELSE "ready"
           /\ self' = IF k.threw THEN self ELSE k.fields
    /\ UNCHANGED <<params, active, disconnecting, certSupplier, sigSupplier, pc, call,
                   errorLog, gets, posts, certCalls, signCalls, lastResp, lastCert,
                   lastPost, lastSign, ncalls, nprints, lastPrint>>

CanCall(c) ==
    /\ phase = "ready"
    /\ pc[c] \in {"idle", "done"}
    /\ ncalls < MaxCalls

\* start() from its call to its first suspension (or its return).
StartCall(c, registerThrows) ==
    /\ CanCall(c)
    /\ LET h == StartCatch("register")
           evs == IF registerThrows THEN h.events ELSE StartTry(IsActive, self.rawCertificate)
           waits == HasEv(evs, "connect")
       IN  /\ Apply(evs)
           /\ pc' = [pc EXCEPT ![c] = IF waits THEN "await1" ELSE "done"]
           /\ call' = [call EXCEPT ![c] =
                  [NoCall EXCEPT
                     !.op = "start",
                     !.activeAtCall = IsActive,
                     !.trace = evs,
                     !.first = IF waits THEN "pending" ELSE "none",
                     !.failures = IF registerThrows THEN {"register"} ELSE {},
                     !.result = IF waits THEN "pending"
                                ELSE Result(registerThrows /\ h.throws)]]
    /\ ncalls' = ncalls + 1
    /\ UNCHANGED <<params, phase, self, active, disconnecting, certCalls, signCalls,
                   lastResp, lastCert, lastPost, lastSign, nprints, lastPrint>>

\* The transport's connect promise settles: resolved (the channel is open)
\* or rejected (the catch block of __printerConnect runs).
ConnectSettle(c, ok) ==
    /\ pc[c] \in {"await1", "await2"}
    /\ LET retry == pc[c] = "await2"
           h == PrinterConnectCatch(IsActive, retry)
           evs == IF ok THEN << >> ELSE h.events
           waits == HasEv(evs, "connect")
       IN  /\ Apply(evs)
           /\ active' = IF ok THEN TRUE ELSE active
           /\ pc' = [pc EXCEPT ![c] = IF waits THEN "await2" ELSE "done"]
           /\ call' = [call EXCEPT ![c] =
                  [@ EXCEPT
                     !.trace = @ \o evs,
                     !.first = IF retry THEN @ ELSE (IF ok THEN "ok" ELSE "failed"),
                     !.second = IF retry THEN (IF ok THEN "ok" ELSE "failed")
                                ELSE (IF waits THEN "pending" ELSE "none"),
                     !.activeAtRetry = IF ~retry /\ ~ok THEN IsActive ELSE @,
                     !.failures = IF ok THEN @
                                  ELSE @ \cup {IF retry THEN "retry" ELSE "first"},
                     !.result = IF waits THEN "pending" ELSE Result(~ok /\ h.throws)]]
    /\ UNCHANGED <<params, phase, self, disconnecting, certCalls, signCalls,
                   lastResp, lastCert, lastPost, lastSign, ncalls, nprints, lastPrint>>

\* close(): runs to its return without suspending.
CloseCall(c, outcome) ==
    /\ CanCall(c)
    /\ LET b == CloseBody(outcome)
       IN  /\ Apply(b.events)
           /\ call' = [call EXCEPT ![c] =
                  [NoCall EXCEPT
                     !.op = "close",
                     !.activeAtCall = IsActive,
                     !.trace = b.events,
                     !.failures = IF outcome = "ok" THEN {} ELSE {outcome},
                     !.result = Result(b.throws)]]
    /\ pc' = [pc EXCEPT ![c] = "done"]
    /\ disconnecting' = (disconnecting \/ outcome = "ok")
    /\ ncalls' = ncalls + 1
    /\ UNCHANGED <<params, phase, self, active, certCalls, signCalls,
                   lastResp, lastCert, lastPost, lastSign, nprints, lastPrint>>

\* The transport finishes a disconnect it accepted.
DisconnectSettle ==
    /\ disconnecting
    /\ disconnecting' = FALSE
    /\ active' = FALSE
    /\ UNCHANGED <<params, phase, self, certSupplier, sigSupplier, pc, call, errorLog,
                   gets, posts, certCalls, signCalls, lastResp, lastCert, lastPost,
                   lastSign, ncalls, nprints, lastPrint>>

\* The transport asks the registered certificate supplier for a certificate.
InvokeCertificateSupplier(resp) ==
    /\ certSupplier # "none"
    /\ certCalls < MaxSupplierCalls
    /\ LET s == CertificateSupplier(certSupplier, self, resp)
       IN  /\ Apply(s.events)
           /\ lastCert' = s.result
           /\ lastResp' = IF HasEv(s.events, "GET") THEN resp ELSE NoResponse
    /\ certCalls' = certCalls + 1
    /\ UNCHANGED <<params, phase, self, active, disconnecting, pc, call, signCalls,
                   lastPost, lastSign, ncalls, nprints, lastPrint>>

\* The transport asks the registered signature supplier to sign a payload.
InvokeSignatureSupplier(toSign, resp) ==
    /\ sigSupplier # "none"
    /\ signCalls < MaxSupplierCalls
    /\ LET s == SingCertificate(self.signUrl, toSign, resp)
       IN  /\ Apply(s.events)
           /\ lastSign' = s.result
           /\ lastPost' = [url |-> self.signUrl, request |-> s.body.request]
    /\ signCalls' = signCalls + 1
    /\ UNCHANGED <<params, phase, self, active, disconnecting, pc, call, certCalls,
                   lastResp, lastCert, ncalls, nprints, lastPrint>>

\* One print method, from its call to its return; `ok` is whether the
\* transport's print promise resolved.
PrintMethod(method, body, a, ok) ==
    /\ phase = "ready"
    /\ nprints < MaxPrints
    /\ LET h == PrintCatch("print")
       IN  /\ Apply(IF ok THEN << >> ELSE h.events)
           /\ lastPrint' = [method |-> method, isBase64 |-> a.isBase64, calls |-> <<body>>,
                            failed |-> ~ok, result |-> Result(~ok /\ h.throws)]
    /\ nprints' = nprints + 1
    /\ UNCHANGED <<params, phase, self, active, disconnecting, pc, call, certCalls,
                   signCalls, lastResp, lastCert, lastPost, lastSign, ncalls>>

htmlPrint(a, ok) == PrintMethod("htmlPrint", HtmlPrintBody(self, a), a, ok)
pdfPrint(a, ok) == PrintMethod("pdfPrint", PdfPrintBody(self, a), a, ok)
imagePrint(a, ok) == PrintMethod("imagePrint", ImagePrintBody(self, a), a, ok)
rawPrint(a, ok) == PrintMethod("rawPrint", RawPrintBody(self, a), a, ok)

Bootstrap ==
    \/ Construct
    \/ \E c \in Callers, registerThrows \in BOOLEAN : StartCall(c, registerThrows)
    \/ \E c \in Callers, ok \in BOOLEAN : ConnectSettle(c, ok)
    \/ \E c \in Callers, outcome \in DisconnectOutcomes : CloseCall(c, outcome)
    \/ DisconnectSettle

Handshake ==
    \/ \E resp \in Responses : InvokeCertificateSupplier(resp)
    \/ \E toSign \in ToSign, resp \in Responses : InvokeSignatureSupplier(toSign, resp)

Printing ==
    \/ \E a \in PrintArgs, ok \in BOOLEAN : htmlPrint(a, ok)
    \/ \E a \in PrintArgs, ok \in BOOLEAN : pdfPrint(a, ok)
    \/ \E a \in PrintArgs, ok \in BOOLEAN : imagePrint(a, ok)
    \/ \E a \in PrintArgs, ok \in BOOLEAN : rawPrint(a, ok)

Next == Bootstrap

\* One caller's start() calls, and the transport's use of the suppliers they
\* register (the suppliers read the instance's fields, not the callers).
NextHandshake ==
    \/ Construct
    \/ \E registerThrows \in BOOLEAN : StartCall("c1", registerThrows)
    \/ \E ok \in BOOLEAN : ConnectSettle("c1", ok)
    \/ Handshake

NextPrint == Construct \/ Printing

\* Construction, start() and close() by concurrent callers, and the transport
\* settling the connects and disconnects it was asked for.
Spec == Init /\ [][Next]_vars

\* start() and the transport invoking the registered suppliers.
SpecHandshake == Init /\ [][NextHandshake]_vars

\* Construction and the four print methods.
SpecPrint == Init /\ [][NextPrint]_vars

\* ------------------------------------------------------------ properties
IsConnectOrLaunch(e) == e.ev \in {"connect", "assign"}
ConnectsAndLaunches(trace) == SelectSeq(trace, IsConnectOrLaunch)
Logged(c) == CountEv(call[c].trace, "logError")
FirstAttempt == <<Connect(NoOptions)>>
WithRetry == <<Connect(NoOptions), Launch, Connect(RetryOptions)>>

\* A start() call that found the transport inactive and registered its suppliers.
ConnectingStart(c) ==
    /\ call[c].op = "start"
    /\ ~call[c].activeAtCall
    /\ "register" \notin call[c].failures

\* C1 as stated: the first connect has no options and no launch; the launch
\* and the retry connect {retries: 2, delay: 1} happen if and only if the first
\* attempt failed; nothing follows the retry; first-fails-retry-succeeds
\* resolves.
C1_Original ==
    \A c \in Callers : ConnectingStart(c) =>
        /\ call[c].first \in {"pending", "ok"} => ConnectsAndLaunches(call[c].trace) = FirstAttempt
        /\ call[c].first = "failed" => ConnectsAndLaunches(call[c].trace) = WithRetry
        /\ (call[c].first = "failed" /\ call[c].second = "ok") => call[c].result = "resolved"

\* C1 amended: as C1, except that after a failed first attempt the launch and
\* the retry connect happen only if the transport still reports inactive; if
\* it has become active meanwhile the call ends with neither.
C1_Amended ==
    \A c \in Callers : ConnectingStart(c) =>
        /\ call[c].first \in {"pending", "ok"} => ConnectsAndLaunches(call[c].trace) = FirstAttempt
        /\ (call[c].first = "failed" /\ ~call[c].activeAtRetry) =>
               ConnectsAndLaunches(call[c].trace) = WithRetry
        /\ (call[c].first = "failed" /\ call[c].activeAtRetry) =>
               /\ ConnectsAndLaunches(call[c].trace) = FirstAttempt
               /\ pc[c] = "done"
               /\ call[c].result = "resolved"
        /\ (call[c].first = "failed" /\ call[c].second = "ok") =>
               /\ call[c].result = "resolved"
               /\ CountEv(call[c].trace, "connect") = 2
               /\ CountEv(call[c].trace, "assign") = 1

C1_Witness ==
    \E c \in Callers :
        /\ ConnectingStart(c)
        /\ call[c].first = "failed"
        /\ call[c].second = "ok"
        /\ pc[c] = "done"
        /\ ConnectsAndLaunches(call[c].trace) = WithRetry

C3_ActiveStartIsNoop ==
    \A c \in Callers :
        (call[c].op = "start" /\ call[c].activeAtCall) =>
            /\ pc[c] = "done"
            /\ call[c].result = "resolved"
            /\ ~HasEv(call[c].trace, "connect")
            /\ ~HasEv(call[c].trace, "assign")

C3_Witness ==
    \E c \in Callers :
        /\ call[c].op = "start"
        /\ call[c].activeAtCall
        /\ call[c].failures = {}
        /\ ncalls >= 3
        /\ \E d \in Callers \ {c} : call[d].op = "close"

\* C4 as stated: whenever the transport's disconnect fails, by throwing or by
\* rejecting its promise, close() resolves and exactly one error is logged.
C4_Claim ==
    \A c \in Callers :
        (call[c].op = "close" /\ call[c].failures # {}) =>
            /\ call[c].result = "resolved"
            /\ Logged(c) = 1

\* C5 as stated: a finished start() or close() call in which a failure
\* occurred has written at least one logError entry.
C5_Original ==
    \A c \in Callers :
        (pc[c] = "done" /\ call[c].failures # {}) => Logged(c) >= 1

LoggedFailures == {"retry", "register", "throws"}

\* C5 amended: a finished call has written exactly one logError entry if its
\* retry attempt failed, its supplier registration threw or disconnect threw
\* synchronously, and none otherwise (a failed first attempt only starts the
\* retry; a rejected disconnect promise is never caught).
C5_Amended ==
    \A c \in Callers :
        pc[c] = "done" =>
            Logged(c) = (IF call[c].failures \cap LoggedFailures # {} THEN 1 ELSE 0)

C5_Witness ==
    \E c \in Callers, d \in Callers :
        /\ pc[c] = "done" /\ call[c].failures = {"first", "retry"} /\ Logged(c) = 1
        /\ pc[d] = "done" /\ call[d].failures = {"first"} /\ Logged(d) = 0

Missing(v) == v = Undefined

\* C6 as stated: the constructor throws exactly when signUrl, printer or every
\* certificate source is missing, and a throwing constructor has had no effect.
C6_Claim ==
    phase # "new" =>
        /\ phase = "threw" <=>
              \/ Missing(params.signUrl)
              \/ Missing(params.printer)
              \/ (Missing(params.certificateUrl) /\ ~Truthy(params.rawCertificate))
        /\ phase = "threw" =>
              /\ certSupplier = "none" /\ sigSupplier = "none"
              /\ gets = 0 /\ posts = 0
              /\ \A c \in Callers : call[c] = NoCall

\* C7: with a literal certificate the supplier resolves with that literal and
\* no GET is ever issued, however often the transport asks and however the
\* connects end.
C7_LiteralCertificateNeverFetched ==
    (phase = "ready" /\ Truthy(self.rawCertificate)) =>
        /\ gets = 0
        /\ certSupplier \in {"none", "raw"}
        /\ certCalls > 0 => lastCert = Settled("resolved", self.rawCertificate)

C7_Witness ==
    /\ phase = "ready"
    /\ Truthy(self.rawCertificate)
    /\ certCalls >= 2
    /\ call["c1"].second = "failed"

Is2xx(status) == status \in 200..299

\* C8 as stated: with only a certificate URL, each supplier call issues one
\* GET and resolves with the body of a 2xx response, and fails on a network
\* failure or a non-2xx response.
C8_Claim ==
    (phase = "ready" /\ ~Truthy(self.rawCertificate) /\ certCalls > 0) =>
        /\ gets = certCalls
        /\ lastCert.state = "resolved" =>
               /\ lastResp.net = "ok"
               /\ Is2xx(lastResp.status)
               /\ lastCert.value = lastResp.body
        /\ (lastResp.net = "fail" \/ ~Is2xx(lastResp.status)) => lastCert.state = "rejected"

Before(trace, name, i) == \E j \in 1..(i - 1) : trace[j].ev = name

\* C9: in every start() both suppliers are registered before the first
\* transport connect, and start() issues no GET or POST itself: requests are
\* issued only by supplier invocations.
C9_RegisteredBeforeConnect ==
    /\ \A c \in Callers : call[c].op = "start" =>
          /\ \A i \in DOMAIN call[c].trace : call[c].trace[i].ev = "connect" =>
                /\ Before(call[c].trace, "setCertificatePromise", i)
                /\ Before(call[c].trace, "setSignaturePromise", i)
          /\ ~HasEv(call[c].trace, "GET")
          /\ ~HasEv(call[c].trace, "POST")
    /\ (\E c \in Callers : pc[c] \in {"await1", "await2"}) =>
          certSupplier # "none" /\ sigSupplier # "none"
    /\ gets <= certCalls
    /\ posts = signCalls

C9_Witness ==
    /\ call["c1"].op = "start"
    /\ pc["c1"] = "await1"
    /\ certSupplier = "fetch"
    /\ sigSupplier = "sign"
    /\ gets = 0 /\ posts = 0

FlatDescriptors(payload) ==
    /\ payload.kind = "array"
    /\ \A i \in DOMAIN payload.items : payload.items[i].kind = "object"

\* C10 as stated: each print method makes one print call, with a configuration
\* for the configured printer and a flat array of descriptor objects, and with
\* isBase64 the pdf or image descriptor carries format 'base64'.
C10_Claim ==
    lastPrint.method # "none" =>
        /\ Len(lastPrint.calls) = 1
        /\ lastPrint.calls[1].config.printer = self.printer
        /\ FlatDescriptors(lastPrint.calls[1].payload)
        /\ (lastPrint.isBase64 /\ lastPrint.method \in {"pdfPrint", "imagePrint"}) =>
               \A i \in DOMAIN lastPrint.calls[1].payload.items :
                   lastPrint.calls[1].payload.items[i].format = "base64"

====
